---- MODULE Spec2Model ----
(***************************************************************************)
(* Model of apiserver/plane/app/views/base.py: TimezoneMixin, BaseViewSet  *)
(* and BaseAPIView.  A request is served by one execution unit (thread);   *)
(* the active time zone is thread-bound state that survives the request.   *)
(* Text values (path parameters, identifiers) are sequences of             *)
(* one-character strings so that uuid parsing can be computed.             *)
(***************************************************************************)
EXTENDS Naturals, Sequences, FiniteSets, TLC

VARIABLES
    store,       \* the ProjectIdentifier rows (read only)
    DEBUG,       \* settings.DEBUG
    served,      \* requests completed so far
    pc,          \* per unit: position in the dispatch pipeline
    view,        \* per unit: the view instance and the request it serves
    tz,          \* per unit: the thread's active time zone
    exc,         \* per unit: the exception in flight
    response,    \* per unit: the response computed inside super().dispatch
    returned,    \* per unit: what dispatch handed back to its caller
    heCalls,     \* per unit: record of each handle_exception invocation
    logs,        \* per unit: the log_exception calls of this request
    queries,     \* per unit: ProjectIdentifier queries issued by this request
    prints,      \* per unit: diagnostic prints of this request
    handlerSaw,  \* per unit: what the resource handler observed
    stages,      \* per unit: the pipeline stages this request has run
    call,        \* a direct invocation of get_project_id and its outcome
    acc          \* a direct evaluation of an accessor property and its value

vars == <<store, DEBUG, served, pc, view, tz, exc, response, returned,
          heCalls, logs, queries, prints, handlerSaw, stages, call, acc>>

-----------------------------------------------------------------------------
(* Bounds *)

MaxRequests == 2

Units == {1, 2}

-----------------------------------------------------------------------------
(* Text values *)

NoneVal == <<"<None>">>

Empty == <<>>

Falsy(v) == v = NoneVal \/ v = Empty

HexDigits == {"0", "1", "2", "3", "4", "5", "6", "7", "8", "9",
              "a", "b", "c", "d", "e", "f", "A", "B", "C", "D", "E", "F"}

\* the canonical textual form 8-4-4-4-12 with every digit equal to d
CanonicalOf(d) == [i \in 1..36 |-> IF i \in {9, 14, 19, 24} THEN "-" ELSE d]

Uuid1 == CanonicalOf("1")

Uuid2 == CanonicalOf("2")

\* 32 hex digits without hyphens: accepted by uuid.UUID, not canonical form
Hex32 == [i \in 1..32 |-> "a"]

AliasENG == <<"E", "N", "G">>

AliasOPS == <<"O", "P", "S">>

TenantAcme == <<"a", "c", "m", "e">>

TenantOther == <<"o", "t", "h", "e", "r">>

IsCanonical(v) ==
    /\ v # NoneVal
    /\ Len(v) = 36
    /\ \A i \in 1..36 :
         IF i \in {9, 14, 19, 24} THEN v[i] = "-" ELSE v[i] \in HexDigits

\* str(value)
Str(v) == IF v = NoneVal THEN <<"N", "o", "n", "e">> ELSE v

RECURSIVE StripBraces(_)
StripBraces(s) ==
    IF s = <<>> THEN s
    ELSE IF Head(s) \in {"{", "}"} THEN StripBraces(Tail(s))
    ELSE IF s[Len(s)] \in {"{", "}"} THEN StripBraces(SubSeq(s, 1, Len(s) - 1))
    ELSE s

NotHyphen(c) == c # "-"

\* uuid.UUID(hex): strip braces, drop hyphens, want 32 hex digits
\* (the urn:/uuid: prefix removal is the identity on texts without a colon)
UuidParses(s) ==
    LET hex == SelectSeq(StripBraces(s), NotHyphen)
    IN  /\ Len(hex) = 32
        /\ \A i \in 1..32 : hex[i] \in HexDigits

is_uuid_never(value) == FALSE

is_uuid(value) == UuidParses(Str(value))

-----------------------------------------------------------------------------
(* Exceptions: a class name, the classes isinstance answers for, and the   *)
(* status_code an APIException carries                                     *)

Exc(c, m, s) == [cls |-> c, mro |-> m, status_code |-> s]

NoExc == Exc("None", {}, 0)

IntegrityError == Exc("IntegrityError", {"IntegrityError"}, 0)

ValidationError == Exc("ValidationError", {"ValidationError"}, 0)

ObjectDoesNotExist == Exc("ObjectDoesNotExist", {"ObjectDoesNotExist"}, 0)

DoesNotExist == Exc("DoesNotExist", {"DoesNotExist", "ObjectDoesNotExist"}, 0)

KeyError == Exc("KeyError", {"KeyError"}, 0)

ZoneInfoNotFoundError == Exc("ZoneInfoNotFoundError", {"ZoneInfoNotFoundError", "KeyError"}, 0)

AttributeError == Exc("AttributeError", {"AttributeError"}, 0)

\* a handler-defined class deriving from two classified kinds
IntegrityKeyError == Exc("IntegrityKeyError", {"IntegrityKeyError", "IntegrityError", "KeyError"}, 0)

ValidationNotFound == Exc("ValidationNotFound", {"ValidationNotFound", "ValidationError", "ObjectDoesNotExist"}, 0)

NotAuthenticated401 == Exc("NotAuthenticated", {"NotAuthenticated", "APIException"}, 401)

NotAuthenticated403 == Exc("NotAuthenticated", {"NotAuthenticated", "APIException"}, 403)

\* APIException("Please check the view", status.HTTP_400_BAD_REQUEST): the
\* second argument is the error code, the status_code stays the class's 500
APIExceptionCheckView == Exc("APIException", {"APIException"}, 500)

Http404 == Exc("Http404", {"Http404"}, 404)

LoggerError == Exc("LoggerError", {"LoggerError"}, 0)

isinstance(e, c) == c \in e.mro

HandlerErrors ==
    {IntegrityError, ValidationError, ObjectDoesNotExist, DoesNotExist, KeyError,
     AttributeError, IntegrityKeyError, ValidationNotFound, Http404}

-----------------------------------------------------------------------------
(* Values dispatch can hand back *)

EmptyBody == [k \in {} |-> ""]

Response(s, b) == [type |-> "Response", status |-> s, body |-> b, exc |-> NoExc]

RawException(e) == [type |-> "Exception", status |-> 0, body |-> EmptyBody, exc |-> e]

Escaped(e) == [type |-> "Escaped", status |-> 0, body |-> EmptyBody, exc |-> e]

NoResponse == [type |-> "None", status |-> 0, body |-> EmptyBody, exc |-> NoExc]

ErrorBody(msg) == "error" :> msg

HTTP_400_BAD_REQUEST == 400

HTTP_404_NOT_FOUND == 404

HTTP_500_INTERNAL_SERVER_ERROR == 500

-----------------------------------------------------------------------------
(* The ProjectIdentifier table: rows (workspace slug, name, project id).   *)
(* A name is unique within a workspace.                                    *)

Row(w, n, p) == [workspace |-> w, name |-> n, project_id |-> p]

CandidateRows ==
    {Row(TenantAcme, AliasENG, Uuid1),
     Row(TenantOther, AliasENG, Uuid2),
     Row(TenantAcme, AliasOPS, Uuid2)}

AllStores == SUBSET CandidateRows

\* the tables the pipeline is run against: one where the alias ENG exists in
\* both workspaces, one where only the other workspace has it
Stores ==
    {{Row(TenantAcme, AliasENG, Uuid1), Row(TenantOther, AliasENG, Uuid2)},
     {Row(TenantOther, AliasENG, Uuid2)}}

-----------------------------------------------------------------------------
(* Path parameters, users and view classes *)

Kwargs(s, p, i) == [slug |-> s, project_id |-> p, issue_id |-> i]

NoKwargs == Kwargs(NoneVal, NoneVal, NoneVal)

Slugs == {TenantAcme, TenantOther}

RawKeys == {NoneVal, Uuid1, AliasENG, AliasOPS}

IssueKeys == {NoneVal, <<"I", "-", "7">>}

AnonymousUser == [is_authenticated |-> FALSE, user_timezone |-> ""]

User(zone) == [is_authenticated |-> TRUE, user_timezone |-> zone]

DefaultZone == "default"

KnownZones == {"Asia/Kolkata", "UTC"}

Users == {AnonymousUser, User("Asia/Kolkata"), User("UTC"), User("Mars/Phobos")}

\* permission_classes of the view class: the base default, or a subclass override
PermissionClasses == {"IsAuthenticated", "AllowAny"}

Variants == {"BaseViewSet", "BaseAPIView"}

View(v, p, u, kw) ==
    [variant |-> v, permission_classes |-> p, user |-> u, kwargs |-> kw, self_kwargs |-> kw]

NoView == View("None", "None", AnonymousUser, NoKwargs)

Requests ==
    {View(v, p, u, Kwargs(s, k, i)) :
        v \in Variants, p \in PermissionClasses, u \in Users,
        s \in Slugs, k \in RawKeys, i \in IssueKeys}

-----------------------------------------------------------------------------
(* BaseViewSet: identifier resolution *)

workspace_slug(self_kwargs) == self_kwargs.slug

Lookup(st, slug, name) == {r \in st : r.workspace = slug /\ r.name = name}

Resolved(v, n) == [raised |-> NoExc, value |-> v, lookups |-> n]

Failed(e, n) == [raised |-> e, value |-> NoneVal, lookups |-> n]

get_project_id_any_tenant(st, self_kwargs, project_id) ==
    IF ~Falsy(project_id) /\ ~is_uuid(project_id)
    THEN LET rows == {r \in st : r.name = project_id}
         IN  IF rows = {} THEN Failed(ObjectDoesNotExist, 1)
             ELSE Resolved((CHOOSE r \in rows : TRUE).project_id, 1)
    ELSE Resolved(project_id, 0)

\* every non-empty key is looked up by name, a UUID included
get_project_id_looks_up_uuids(st, self_kwargs, project_id) ==
    IF ~Falsy(project_id)
    THEN LET rows == Lookup(st, workspace_slug(self_kwargs), project_id)
         IN  IF rows = {} THEN Failed(ObjectDoesNotExist, 1)
             ELSE Resolved((CHOOSE r \in rows : TRUE).project_id, 1)
    ELSE Resolved(project_id, 0)

get_project_id(st, self_kwargs, project_id) ==
    IF ~Falsy(project_id) /\ ~is_uuid(project_id)
    THEN LET rows == Lookup(st, workspace_slug(self_kwargs), project_id)
         IN  IF rows = {} THEN Failed(ObjectDoesNotExist, 1)
             ELSE Resolved((CHOOSE r \in rows : TRUE).project_id, 1)
    ELSE Resolved(project_id, 0)

\* the alias branch asks the table for the issue and fails when it is unknown
get_issue_id_looks_up(issue_id) ==
    IF ~Falsy(issue_id) /\ ~is_uuid(issue_id)
    THEN Failed(ObjectDoesNotExist, 1)
    ELSE Resolved(issue_id, 0)

\* the alias branch is `pass`: every value falls through to return issue_id
get_issue_id(issue_id) == Resolved(issue_id, 0)

\* the identifier block of BaseViewSet.dispatch on self.kwargs: project_id,
\* then issue_id; an exception leaves what was written before it
dispatch_identifiers(st, self_kwargs) ==
    LET pid == self_kwargs.project_id
        rp  == IF ~Falsy(pid) THEN get_project_id(st, self_kwargs, pid) ELSE Resolved(pid, 0)
        kw1 == [self_kwargs EXCEPT !.project_id = rp.value]
        iid == self_kwargs.issue_id
        ri  == IF ~Falsy(iid) THEN get_issue_id(iid) ELSE Resolved(iid, 0)
        kw2 == [kw1 EXCEPT !.issue_id = ri.value]
    IN  IF rp.raised # NoExc
        THEN [raised |-> rp.raised, kwargs |-> self_kwargs, lookups |-> rp.lookups]
        ELSE IF ri.raised # NoExc
        THEN [raised |-> ri.raised, kwargs |-> kw1, lookups |-> rp.lookups + ri.lookups]
        ELSE [raised |-> NoExc, kwargs |-> kw2, lookups |-> rp.lookups + ri.lookups]

\* self.model.objects.all(): fails when the view class left model = None
get_queryset(model) ==
    IF model = "None"
    THEN [raised |-> APIExceptionCheckView, logged |-> <<[site |-> "get_queryset", cls |-> "AttributeError"]>>]
    ELSE [raised |-> NoExc, logged |-> <<>>]

-----------------------------------------------------------------------------
(* Error classification *)

MsgIntegrity == "The payload is not valid"

MsgValidation == "Please provide valid detail"

MsgNotFound == "The required object does not exist."

MsgKey == "The required key does not exist."

MsgFallback == "Something went wrong please try again later"

\* the framework's handler answers these itself; everything else it re-raises
FrameworkConverts(e) == isinstance(e, "APIException") \/ isinstance(e, "Http404")

FrameworkResponse(e) ==
    Response(e.status_code, "detail" :> e.cls)

Returned(r, lg, pr) == [outcome |-> "return", response |-> r, raised |-> NoExc, logged |-> lg, printed |-> pr]

Raised(e, lg, pr) == [outcome |-> "raise", response |-> NoResponse, raised |-> e, logged |-> lg, printed |-> pr]

\* log_exception(e) followed by return Response(...): the logger may raise
LogThen(e, r, logRaises, pr) ==
    IF logRaises THEN Raised(LoggerError, 1, pr) ELSE Returned(r, 1, pr)

\* the KeyError test moved ahead of the IntegrityError test
BaseViewSet_handle_exception_key_first(e, logRaises) ==
    IF FrameworkConverts(e) THEN Returned(FrameworkResponse(e), 0, 0)
    ELSE IF isinstance(e, "KeyError")
         THEN LogThen(e, Response(HTTP_400_BAD_REQUEST, ErrorBody(MsgKey)), logRaises, 1)
    ELSE IF isinstance(e, "IntegrityError")
         THEN Returned(Response(HTTP_400_BAD_REQUEST, ErrorBody(MsgIntegrity)), 0, 1)
    ELSE IF isinstance(e, "ValidationError")
         THEN Returned(Response(HTTP_400_BAD_REQUEST, ErrorBody(MsgValidation)), 0, 1)
    ELSE IF isinstance(e, "ObjectDoesNotExist")
         THEN Returned(Response(HTTP_404_NOT_FOUND, ErrorBody(MsgNotFound)), 0, 1)
    ELSE LogThen(e, Response(HTTP_500_INTERNAL_SERVER_ERROR, ErrorBody(MsgFallback)), logRaises, 1)

BaseViewSet_handle_exception(e, logRaises) ==
    IF FrameworkConverts(e) THEN Returned(FrameworkResponse(e), 0, 0)
    ELSE IF isinstance(e, "IntegrityError")
         THEN Returned(Response(HTTP_400_BAD_REQUEST, ErrorBody(MsgIntegrity)), 0, 1)
    ELSE IF isinstance(e, "ValidationError")
         THEN Returned(Response(HTTP_400_BAD_REQUEST, ErrorBody(MsgValidation)), 0, 1)
    ELSE IF isinstance(e, "ObjectDoesNotExist")
         THEN Returned(Response(HTTP_404_NOT_FOUND, ErrorBody(MsgNotFound)), 0, 1)
    ELSE IF isinstance(e, "KeyError")
         THEN LogThen(e, Response(HTTP_400_BAD_REQUEST, ErrorBody(MsgKey)), logRaises, 1)
    ELSE LogThen(e, Response(HTTP_500_INTERNAL_SERVER_ERROR, ErrorBody(MsgFallback)), logRaises, 1)

\* the fallback answers with another body key
BaseAPIView_handle_exception_message_key(e, logRaises) ==
    IF FrameworkConverts(e) THEN Returned(FrameworkResponse(e), 0, 0)
    ELSE IF isinstance(e, "IntegrityError")
         THEN Returned(Response(HTTP_400_BAD_REQUEST, ErrorBody(MsgIntegrity)), 0, 0)
    ELSE IF isinstance(e, "ValidationError")
         THEN Returned(Response(HTTP_400_BAD_REQUEST, ErrorBody(MsgValidation)), 0, 0)
    ELSE IF isinstance(e, "ObjectDoesNotExist")
         THEN Returned(Response(HTTP_404_NOT_FOUND, ErrorBody(MsgNotFound)), 0, 0)
    ELSE IF isinstance(e, "KeyError")
         THEN Returned(Response(HTTP_400_BAD_REQUEST, ErrorBody(MsgKey)), 0, 0)
    ELSE LogThen(e, Response(HTTP_500_INTERNAL_SERVER_ERROR, "message" :> MsgFallback), logRaises, 0)

BaseAPIView_handle_exception(e, logRaises) ==
    IF FrameworkConverts(e) THEN Returned(FrameworkResponse(e), 0, 0)
    ELSE IF isinstance(e, "IntegrityError")
         THEN Returned(Response(HTTP_400_BAD_REQUEST, ErrorBody(MsgIntegrity)), 0, 0)
    ELSE IF isinstance(e, "ValidationError")
         THEN Returned(Response(HTTP_400_BAD_REQUEST, ErrorBody(MsgValidation)), 0, 0)
    ELSE IF isinstance(e, "ObjectDoesNotExist")
         THEN Returned(Response(HTTP_404_NOT_FOUND, ErrorBody(MsgNotFound)), 0, 0)
    ELSE IF isinstance(e, "KeyError")
         THEN Returned(Response(HTTP_400_BAD_REQUEST, ErrorBody(MsgKey)), 0, 0)
    ELSE LogThen(e, Response(HTTP_500_INTERNAL_SERVER_ERROR, ErrorBody(MsgFallback)), logRaises, 0)

handle_exception(variant, e, logRaises) ==
    IF variant = "BaseViewSet" THEN BaseViewSet_handle_exception(e, logRaises)
    ELSE BaseAPIView_handle_exception(e, logRaises)

-----------------------------------------------------------------------------
(* The dispatch pipeline, one unit at a time *)

NotInvoked ==
    [invoked |-> FALSE, kwargs |-> NoKwargs, self_kwargs |-> NoKwargs, tz |-> DefaultZone,
     response |-> NoResponse]

NoCall == [made |-> FALSE, slug |-> NoneVal, rawKey |-> NoneVal, out |-> Resolved(NoneVal, 0)]

NoAcc == [made |-> FALSE, kind |-> "none"]

HandlerStatuses == {200, 201}

HandlerOutcomes(variant) ==
    [kind : {"respond"}, status : HandlerStatuses, exc : {NoExc}, model : {"None"}]
    \cup [kind : {"raise"}, status : {0}, exc : HandlerErrors, model : {"None"}]
    \cup (IF variant = "BaseViewSet"
          THEN [kind : {"get_queryset"}, status : {200}, exc : {NoExc}, model : {"None", "Issue"}]
          ELSE {})

Init ==
    /\ store \in Stores
    /\ DEBUG \in BOOLEAN
    /\ served = 0
    /\ pc = [u \in Units |-> "idle"]
    /\ view = [u \in Units |-> NoView]
    /\ tz = [u \in Units |-> DefaultZone]
    /\ exc = [u \in Units |-> NoExc]
    /\ response = [u \in Units |-> NoResponse]
    /\ returned = [u \in Units |-> NoResponse]
    /\ heCalls = [u \in Units |-> <<>>]
    /\ logs = [u \in Units |-> <<>>]
    /\ queries = [u \in Units |-> 0]
    /\ prints = [u \in Units |-> 0]
    /\ handlerSaw = [u \in Units |-> NotInvoked]
    /\ stages = [u \in Units |-> <<>>]
    /\ call = NoCall
    /\ acc = NoAcc

\* as_view: a fresh view instance, self.kwargs = kwargs, then self.dispatch(...)
Arrive(u, req) ==
    /\ \A v \in Units : pc[v] = "idle"
    /\ served < MaxRequests
    /\ served' = served + 1
    /\ pc' = [pc EXCEPT ![u] = "dispatch"]
    /\ view' = [view EXCEPT ![u] = req]
    /\ UNCHANGED <<store, DEBUG, tz, exc, response, returned, heCalls, logs,
                   queries, prints, handlerSaw, stages, call, acc>>

\* a failed resolution is swallowed and the request goes on to super().dispatch
ResolveIdentifiers_swallow(u) ==
    /\ pc[u] = "dispatch"
    /\ view[u].variant = "BaseViewSet"
    /\ LET kw == view[u].self_kwargs
           rp == IF ~Falsy(kw.project_id) THEN get_project_id(store, kw, kw.project_id)
                 ELSE Resolved(kw.project_id, 0)
       IN  /\ queries' = [queries EXCEPT ![u] = @ + rp.lookups]
           /\ stages' = [stages EXCEPT ![u] =
                  Append(@, IF rp.raised # NoExc THEN "resolve_failed" ELSE "resolved")]
           /\ view' = [view EXCEPT ![u].self_kwargs =
                  IF rp.raised # NoExc THEN kw ELSE [kw EXCEPT !.project_id = rp.value]]
    /\ pc' = [pc EXCEPT ![u] = "super_dispatch"]
    /\ UNCHANGED <<store, DEBUG, served, tz, exc, response, returned, heCalls, logs,
                   prints, handlerSaw, call, acc>>

\* BaseViewSet.dispatch, the identifier resolution before super().dispatch
ResolveIdentifiers(u) ==
    /\ pc[u] = "dispatch"
    /\ view[u].variant = "BaseViewSet"
    /\ LET r == dispatch_identifiers(store, view[u].self_kwargs)
       IN  /\ queries' = [queries EXCEPT ![u] = @ + r.lookups]
           /\ view' = [view EXCEPT ![u].self_kwargs = r.kwargs]
           /\ IF r.raised # NoExc
              THEN /\ exc' = [exc EXCEPT ![u] = r.raised]
                   /\ pc' = [pc EXCEPT ![u] = "outer_except"]
                   /\ stages' = [stages EXCEPT ![u] = Append(@, "resolve_failed")]
              ELSE /\ pc' = [pc EXCEPT ![u] = "super_dispatch"]
                   /\ stages' = [stages EXCEPT ![u] = Append(@, "resolved")]
                   /\ UNCHANGED exc
    /\ UNCHANGED <<store, DEBUG, served, tz, response, returned, heCalls, logs,
                   prints, handlerSaw, call, acc>>

\* super().dispatch(request, *args, **kwargs): the framework's dispatch
\* re-assigns self.kwargs from the keyword arguments it is called with
SuperDispatch(u) ==
    /\ \/ pc[u] = "super_dispatch"
       \/ pc[u] = "dispatch" /\ view[u].variant = "BaseAPIView"
    /\ view' = [view EXCEPT ![u].self_kwargs = view[u].kwargs]
    /\ pc' = [pc EXCEPT ![u] = "initial"]
    /\ stages' = [stages EXCEPT ![u] = Append(@, "super_dispatch")]
    /\ UNCHANGED <<store, DEBUG, served, tz, exc, response, returned, heCalls,
                   logs, queries, prints, handlerSaw, call, acc>>

\* the zone is reset before super().initial runs its checks
Initial_reset_before_checks(u, denied) ==
    /\ pc[u] = "initial"
    /\ IF view[u].permission_classes = "IsAuthenticated" /\ ~view[u].user.is_authenticated
       THEN /\ exc' = [exc EXCEPT ![u] = denied]
            /\ pc' = [pc EXCEPT ![u] = "handle_exception"]
            /\ stages' = [stages EXCEPT ![u] = Append(@, "initial_rejected")]
            /\ tz' = [tz EXCEPT ![u] = DefaultZone]
       ELSE IF view[u].user.is_authenticated
       THEN IF view[u].user.user_timezone \in KnownZones
            THEN /\ tz' = [tz EXCEPT ![u] = view[u].user.user_timezone]
                 /\ pc' = [pc EXCEPT ![u] = "handler"]
                 /\ stages' = [stages EXCEPT ![u] = Append(@, "activate")]
                 /\ UNCHANGED exc
            ELSE /\ exc' = [exc EXCEPT ![u] = ZoneInfoNotFoundError]
                 /\ pc' = [pc EXCEPT ![u] = "handle_exception"]
                 /\ stages' = [stages EXCEPT ![u] = Append(@, "activate_failed")]
                 /\ tz' = [tz EXCEPT ![u] = DefaultZone]
       ELSE /\ tz' = [tz EXCEPT ![u] = DefaultZone]
            /\ pc' = [pc EXCEPT ![u] = "handler"]
            /\ stages' = [stages EXCEPT ![u] = Append(@, "deactivate")]
            /\ UNCHANGED exc
    /\ UNCHANGED <<store, DEBUG, served, view, response, returned, heCalls, logs,
                   queries, prints, handlerSaw, call, acc>>

\* the active time zone is one process-wide value: activate and deactivate
\* set it for every execution unit
Initial_process_wide_zone(u, denied) ==
    /\ pc[u] = "initial"
    /\ IF view[u].permission_classes = "IsAuthenticated" /\ ~view[u].user.is_authenticated
       THEN /\ exc' = [exc EXCEPT ![u] = denied]
            /\ pc' = [pc EXCEPT ![u] = "handle_exception"]
            /\ stages' = [stages EXCEPT ![u] = Append(@, "initial_rejected")]
            /\ UNCHANGED tz
       ELSE IF view[u].user.is_authenticated
       THEN IF view[u].user.user_timezone \in KnownZones
            THEN /\ tz' = [v \in Units |-> view[u].user.user_timezone]
                 /\ pc' = [pc EXCEPT ![u] = "handler"]
                 /\ stages' = [stages EXCEPT ![u] = Append(@, "activate")]
                 /\ UNCHANGED exc
            ELSE /\ exc' = [exc EXCEPT ![u] = ZoneInfoNotFoundError]
                 /\ pc' = [pc EXCEPT ![u] = "handle_exception"]
                 /\ stages' = [stages EXCEPT ![u] = Append(@, "activate_failed")]
                 /\ UNCHANGED tz
       ELSE /\ tz' = [v \in Units |-> DefaultZone]
            /\ pc' = [pc EXCEPT ![u] = "handler"]
            /\ stages' = [stages EXCEPT ![u] = Append(@, "deactivate")]
            /\ UNCHANGED exc
    /\ UNCHANGED <<store, DEBUG, served, view, response, returned, heCalls, logs,
                   queries, prints, handlerSaw, call, acc>>

\* TimezoneMixin.initial: super().initial (authentication, permissions),
\* then activate the user's zone or deactivate
Initial(u, denied) ==
    /\ pc[u] = "initial"
    /\ IF view[u].permission_classes = "IsAuthenticated" /\ ~view[u].user.is_authenticated
       THEN /\ exc' = [exc EXCEPT ![u] = denied]
            /\ pc' = [pc EXCEPT ![u] = "handle_exception"]
            /\ stages' = [stages EXCEPT ![u] = Append(@, "initial_rejected")]
            /\ UNCHANGED tz
       ELSE IF view[u].user.is_authenticated
       THEN IF view[u].user.user_timezone \in KnownZones
            THEN /\ tz' = [tz EXCEPT ![u] = view[u].user.user_timezone]
                 /\ pc' = [pc EXCEPT ![u] = "handler"]
                 /\ stages' = [stages EXCEPT ![u] = Append(@, "activate")]
                 /\ UNCHANGED exc
            ELSE /\ exc' = [exc EXCEPT ![u] = ZoneInfoNotFoundError]
                 /\ pc' = [pc EXCEPT ![u] = "handle_exception"]
                 /\ stages' = [stages EXCEPT ![u] = Append(@, "activate_failed")]
                 /\ UNCHANGED tz
       ELSE /\ tz' = [tz EXCEPT ![u] = DefaultZone]
            /\ pc' = [pc EXCEPT ![u] = "handler"]
            /\ stages' = [stages EXCEPT ![u] = Append(@, "deactivate")]
            /\ UNCHANGED exc
    /\ UNCHANGED <<store, DEBUG, served, view, response, returned, heCalls, logs,
                   queries, prints, handlerSaw, call, acc>>

\* the resource handler, called with the keyword arguments of super().dispatch
Handler(u, o) ==
    /\ pc[u] = "handler"
    /\ stages' = [stages EXCEPT ![u] = Append(@, "handler")]
    /\ LET qs == IF o.kind = "get_queryset" THEN get_queryset(o.model)
                 ELSE [raised |-> NoExc, logged |-> <<>>]
           e  == IF o.kind = "raise" THEN o.exc ELSE qs.raised
       IN  /\ logs' = [logs EXCEPT ![u] = @ \o qs.logged]
           /\ handlerSaw' = [handlerSaw EXCEPT ![u] =
                  [invoked |-> TRUE, kwargs |-> view[u].kwargs,
                   self_kwargs |-> view[u].self_kwargs, tz |-> tz[u],
                   response |-> IF e # NoExc THEN NoResponse
                                ELSE Response(o.status, "data" :> "ok")]]
           /\ IF e # NoExc
              THEN /\ exc' = [exc EXCEPT ![u] = e]
                   /\ pc' = [pc EXCEPT ![u] = "handle_exception"]
                   /\ UNCHANGED response
              ELSE /\ response' = [response EXCEPT ![u] = Response(o.status, "data" :> "ok")]
                   /\ pc' = [pc EXCEPT ![u] = "finalize"]
                   /\ UNCHANGED exc
    /\ UNCHANGED <<store, DEBUG, served, view, tz, returned, heCalls, queries,
                   prints, call, acc>>

HeCall(u, site, r) == [variant |-> view[u].variant, site |-> site, exc |-> exc[u], result |-> r]

LogEntries(u, r) ==
    IF r.logged = 1 THEN <<[site |-> "handle_exception", cls |-> exc[u].cls]>> ELSE <<>>

\* self.handle_exception(exc) called by the framework's dispatch
HandleException(u, logRaises) ==
    /\ pc[u] = "handle_exception"
    /\ LET r == handle_exception(view[u].variant, exc[u], logRaises)
       IN  /\ heCalls' = [heCalls EXCEPT ![u] = Append(@, HeCall(u, "super_dispatch", r))]
           /\ stages' = [stages EXCEPT ![u] = Append(@, "handle_exception")]
           /\ logs' = [logs EXCEPT ![u] = @ \o LogEntries(u, r)]
           /\ prints' = [prints EXCEPT ![u] = @ + r.printed]
           /\ IF r.outcome = "return"
              THEN /\ response' = [response EXCEPT ![u] = r.response]
                   /\ pc' = [pc EXCEPT ![u] = "finalize"]
                   /\ UNCHANGED exc
              ELSE /\ exc' = [exc EXCEPT ![u] = r.raised]
                   /\ pc' = [pc EXCEPT ![u] = "outer_except"]
                   /\ UNCHANGED response
    /\ UNCHANGED <<store, DEBUG, served, view, tz, returned, queries, handlerSaw, call, acc>>

\* under settings.DEBUG the diagnostic answers in place of the response
dispatch_return_debug_answers(debug, resp) ==
    [returned |-> IF debug THEN Response(resp.status, "queries" :> "0") ELSE resp,
     printed |-> IF debug THEN 1 ELSE 0]

\* if settings.DEBUG: print(...); return response
dispatch_return(debug, resp) ==
    [returned |-> resp, printed |-> IF debug THEN 1 ELSE 0]

\* back in dispatch after super().dispatch returned: the diagnostic print
\* under settings.DEBUG, then return response
ReturnResponse(u) ==
    /\ pc[u] = "finalize"
    /\ prints' = [prints EXCEPT ![u] = @ + dispatch_return(DEBUG, response[u]).printed]
    /\ returned' = [returned EXCEPT ![u] = dispatch_return(DEBUG, response[u]).returned]
    /\ pc' = [pc EXCEPT ![u] = "done"]
    /\ stages' = [stages EXCEPT ![u] = Append(@, "return_response")]
    /\ UNCHANGED <<store, DEBUG, served, view, tz, exc, response, heCalls, logs,
                   queries, handlerSaw, call, acc>>

\* except Exception as exc: response = self.handle_exception(exc); return exc
ExceptReturn(u, logRaises) ==
    /\ pc[u] = "outer_except"
    /\ LET r == handle_exception(view[u].variant, exc[u], logRaises)
       IN  /\ heCalls' = [heCalls EXCEPT ![u] = Append(@, HeCall(u, "dispatch", r))]
           /\ stages' = [stages EXCEPT ![u] = Append(@, "except")]
           /\ logs' = [logs EXCEPT ![u] = @ \o LogEntries(u, r)]
           /\ prints' = [prints EXCEPT ![u] = @ + r.printed]
           /\ IF r.outcome = "return"
              THEN /\ response' = [response EXCEPT ![u] = r.response]
                   /\ returned' = [returned EXCEPT ![u] = RawException(exc[u])]
              ELSE /\ returned' = [returned EXCEPT ![u] = Escaped(r.raised)]
                   /\ UNCHANGED response
    /\ pc' = [pc EXCEPT ![u] = "done"]
    /\ UNCHANGED <<store, DEBUG, served, view, tz, exc, queries, handlerSaw, call, acc>>

\* the request is over: the view instance is dropped, the unit (and its
\* active time zone) goes back to the pool
Complete(u) ==
    /\ pc[u] = "done"
    /\ pc' = [pc EXCEPT ![u] = "idle"]
    /\ view' = [view EXCEPT ![u] = NoView]
    /\ exc' = [exc EXCEPT ![u] = NoExc]
    /\ response' = [response EXCEPT ![u] = NoResponse]
    /\ returned' = [returned EXCEPT ![u] = NoResponse]
    /\ heCalls' = [heCalls EXCEPT ![u] = <<>>]
    /\ logs' = [logs EXCEPT ![u] = <<>>]
    /\ queries' = [queries EXCEPT ![u] = 0]
    /\ prints' = [prints EXCEPT ![u] = 0]
    /\ handlerSaw' = [handlerSaw EXCEPT ![u] = NotInvoked]
    /\ stages' = [stages EXCEPT ![u] = <<>>]
    /\ UNCHANGED <<store, DEBUG, served, tz, call, acc>>

DeniedErrors == {NotAuthenticated401, NotAuthenticated403}

\* log_exception honours its contract and returns
Next ==
    \E u \in Units :
        \/ \E req \in Requests : Arrive(u, req)
        \/ ResolveIdentifiers(u)
        \/ SuperDispatch(u)
        \/ \E d \in DeniedErrors : Initial(u, d)
        \/ \E o \in HandlerOutcomes(view[u].variant) : Handler(u, o)
        \/ HandleException(u, FALSE)
        \/ ReturnResponse(u)
        \/ ExceptReturn(u, FALSE)
        \/ Complete(u)

Spec == Init /\ [][Next]_vars

\* log_exception may raise
NextLogFail ==
    \E u \in Units :
        \/ \E req \in Requests : Arrive(u, req)
        \/ ResolveIdentifiers(u)
        \/ SuperDispatch(u)
        \/ \E d \in DeniedErrors : Initial(u, d)
        \/ \E o \in HandlerOutcomes(view[u].variant) : Handler(u, o)
        \/ \E lf \in BOOLEAN : HandleException(u, lf)
        \/ ReturnResponse(u)
        \/ \E lf \in BOOLEAN : ExceptReturn(u, lf)
        \/ Complete(u)

SpecLogFail == Init /\ [][NextLogFail]_vars

-----------------------------------------------------------------------------
(* Requests served at the same time on different execution units *)

\* as_view on an idle unit, whatever the other units are doing
Accept(u, req) ==
    /\ pc[u] = "idle"
    /\ served < MaxRequests
    /\ served' = served + 1
    /\ pc' = [pc EXCEPT ![u] = "dispatch"]
    /\ view' = [view EXCEPT ![u] = req]
    /\ UNCHANGED <<store, DEBUG, tz, exc, response, returned, heCalls, logs,
                   queries, prints, handlerSaw, stages, call, acc>>

ConcurrentRequests ==
    {View(v, "IsAuthenticated", u, Kwargs(TenantAcme, AliasENG, NoneVal)) :
        v \in Variants, u \in {AnonymousUser, User("Asia/Kolkata"), User("UTC")}}

ConcurrentOutcomes ==
    {o \in HandlerOutcomes("BaseAPIView") :
        \/ o.kind = "respond" /\ o.status = 200
        \/ o.kind = "raise" /\ o.exc = KeyError}

\* the next step of the request running on unit u
UnitStep(u) ==
    \/ ResolveIdentifiers(u)
    \/ SuperDispatch(u)
    \/ Initial(u, NotAuthenticated401)
    \/ \E o \in ConcurrentOutcomes : Handler(u, o)
    \/ HandleException(u, FALSE)
    \/ ReturnResponse(u)
    \/ ExceptReturn(u, FALSE)
    \/ Complete(u)

NextConcurrent ==
    \E u \in Units :
        \/ \E req \in ConcurrentRequests : Accept(u, req)
        \/ UnitStep(u)

SpecConcurrent == Init /\ [][NextConcurrent]_vars

-----------------------------------------------------------------------------
(* get_project_id applied directly to a tenant and a raw key *)

CallSlugs == Slugs \cup {NoneVal}

CallKeys == RawKeys \cup {Empty, Uuid2, Hex32}

CallGetProjectId(s, k) ==
    /\ LET out == get_project_id(store, Kwargs(s, k, NoneVal), k)
       IN  call' = [made |-> TRUE, slug |-> s, rawKey |-> k, out |-> out,
                    again |-> IF out.raised = NoExc
                              THEN get_project_id(store, Kwargs(s, out.value, NoneVal), out.value)
                              ELSE out]
    /\ UNCHANGED <<store, DEBUG, served, pc, view, tz, exc, response, returned,
                   heCalls, logs, queries, prints, handlerSaw, stages, acc>>

NextResolve == \E s \in CallSlugs, k \in CallKeys : CallGetProjectId(s, k)

InitResolve ==
    /\ store \in AllStores
    /\ DEBUG \in BOOLEAN
    /\ served = 0
    /\ pc = [u \in Units |-> "idle"]
    /\ view = [u \in Units |-> NoView]
    /\ tz = [u \in Units |-> DefaultZone]
    /\ exc = [u \in Units |-> NoExc]
    /\ response = [u \in Units |-> NoResponse]
    /\ returned = [u \in Units |-> NoResponse]
    /\ heCalls = [u \in Units |-> <<>>]
    /\ logs = [u \in Units |-> <<>>]
    /\ queries = [u \in Units |-> 0]
    /\ prints = [u \in Units |-> 0]
    /\ handlerSaw = [u \in Units |-> NotInvoked]
    /\ stages = [u \in Units |-> <<>>]
    /\ call = NoCall
    /\ acc = NoAcc

SpecResolve == InitResolve /\ [][NextResolve]_vars

CallIssueKeys == CallKeys \cup IssueKeys

\* get_issue_id called on its own, and the identifier block of dispatch run
\* on self.kwargs holding the same issue_id
CallGetIssueId(s, p, i) ==
    /\ ~call.made
    /\ call' = [made |-> TRUE, slug |-> s, rawKey |-> i, out |-> get_issue_id(i),
                project_id |-> p,
                after |-> dispatch_identifiers(store, Kwargs(s, p, i))]
    /\ UNCHANGED <<store, DEBUG, served, pc, view, tz, exc, response, returned,
                   heCalls, logs, queries, prints, handlerSaw, stages, acc>>

NextIssue ==
    /\ ~call.made
    /\ \E s \in Slugs, p \in {NoneVal, Uuid1, AliasENG}, i \in CallIssueKeys :
           CallGetIssueId(s, p, i)

SpecIssue == InitResolve /\ [][NextIssue]_vars

-----------------------------------------------------------------------------
(* The fields / expand accessors: request.GET.get(name, "").split(",") *)

MaxQueryLen == 6

QueryChars == {"a", "b", "c", ","}

\* the values a query parameter can carry; NoneVal: the parameter is absent
QueryValues == {NoneVal} \cup UNION {[1..n -> QueryChars] : n \in 0..MaxQueryLen}

\* request.GET.get(name, "")
QueryGet(GET, name) == IF GET[name] = NoneVal THEN <<>> ELSE GET[name]

FirstIndex(s, sep) == CHOOSE i \in 1..Len(s) : s[i] = sep /\ \A j \in 1..(i - 1) : s[j] # sep

\* str.split(sep)
RECURSIVE split(_, _)
split(s, sep) ==
    IF \A i \in 1..Len(s) : s[i] # sep THEN <<s>>
    ELSE LET i == FirstIndex(s, sep)
         IN  <<SubSeq(s, 1, i - 1)>> \o split(SubSeq(s, i + 1, Len(s)), sep)

\* the comprehension filter "if field"
Truthy(item) == item # <<>>

NoneList == [none |-> TRUE, list |-> <<>>]

List(l) == [none |-> FALSE, list |-> l]

BaseViewSet_fields(GET) ==
    LET fields == SelectSeq(split(QueryGet(GET, "fields"), ","), Truthy)
    IN  IF fields # <<>> THEN List(fields) ELSE NoneList

BaseViewSet_expand(GET) ==
    LET expand == SelectSeq(split(QueryGet(GET, "expand"), ","), Truthy)
    IN  IF expand # <<>> THEN List(expand) ELSE NoneList

BaseAPIView_fields(GET) ==
    LET fields == SelectSeq(split(QueryGet(GET, "fields"), ","), Truthy)
    IN  IF fields # <<>> THEN List(fields) ELSE NoneList

\* return expand, without "if expand else None"
BaseAPIView_expand_empty_list(GET) ==
    List(SelectSeq(split(QueryGet(GET, "expand"), ","), Truthy))

BaseAPIView_expand(GET) ==
    LET expand == SelectSeq(split(QueryGet(GET, "expand"), ","), Truthy)
    IN  IF expand # <<>> THEN List(expand) ELSE NoneList

ListAccessor(variant, name, GET) ==
    IF variant = "BaseViewSet"
    THEN (IF name = "fields" THEN BaseViewSet_fields(GET) ELSE BaseViewSet_expand(GET))
    ELSE (IF name = "fields" THEN BaseAPIView_fields(GET) ELSE BaseAPIView_expand(GET))

QueryDict(name, value) == [n \in {"fields", "expand"} |-> IF n = name THEN value ELSE NoneVal]

\* a handler reads self.fields or self.expand
ReadListAccessor(variant, name, value) ==
    /\ ~acc.made
    /\ acc' = [made |-> TRUE, kind |-> "list", variant |-> variant, name |-> name,
               param |-> value, out |-> ListAccessor(variant, name, QueryDict(name, value))]
    /\ UNCHANGED <<store, DEBUG, served, pc, view, tz, exc, response, returned,
                   heCalls, logs, queries, prints, handlerSaw, stages, call>>

NextFields ==
    /\ ~acc.made
    /\ \E variant \in Variants, name \in {"fields", "expand"}, value \in QueryValues :
           ReadListAccessor(variant, name, value)

SpecFields == Init /\ [][NextFields]_vars

\* self.kwargs as the URL resolver fills it for the accessors: a key the
\* route does not capture is absent, and .get(key, None) gives None for it
PathKwargs(s, p, k) == [slug |-> s, project_id |-> p, pk |-> k]

UrlNames == {"project", "project-issues", "workspace"}

BaseViewSet_project_id(kwargs, url_name) ==
    LET project_id == kwargs.project_id
    IN  IF ~Falsy(project_id) THEN project_id
        ELSE IF url_name = "project" THEN kwargs.pk
        ELSE NoneVal

\* the plain variant borrows the primary key when there is no project_id
BaseAPIView_project_id_pk_fallback(kwargs) ==
    IF Falsy(kwargs.project_id) THEN kwargs.pk ELSE kwargs.project_id

BaseAPIView_project_id(kwargs) == kwargs.project_id

project_id(variant, kwargs, url_name) ==
    IF variant = "BaseViewSet" THEN BaseViewSet_project_id(kwargs, url_name)
    ELSE BaseAPIView_project_id(kwargs)

\* a handler reads self.workspace_slug and self.project_id
ReadIdAccessors(variant, kwargs, url_name) ==
    /\ ~acc.made
    /\ acc' = [made |-> TRUE, kind |-> "id", variant |-> variant, kwargs |-> kwargs,
               url_name |-> url_name,
               workspace_slug |-> workspace_slug(kwargs),
               project_id |-> project_id(variant, kwargs, url_name)]
    /\ UNCHANGED <<store, DEBUG, served, pc, view, tz, exc, response, returned,
                   heCalls, logs, queries, prints, handlerSaw, stages, call>>

NextAccess ==
    /\ ~acc.made
    /\ \E variant \in Variants, s \in CallSlugs, p \in {NoneVal, Empty, Uuid1, AliasENG},
          k \in {NoneVal, Uuid2}, url_name \in UrlNames :
           ReadIdAccessors(variant, PathKwargs(s, p, k), url_name)

SpecAccess == Init /\ [][NextAccess]_vars

-----------------------------------------------------------------------------
(* Properties *)

Done(u) == pc[u] = "done"

Calls(u) == {heCalls[u][i] : i \in DOMAIN heCalls[u]}

\* the raw path parameter is an alias: present and not parseable as a UUID
IsAlias(k) == ~Falsy(k) /\ ~UuidParses(Str(k))

\* C1: every request ends with dispatch returning one structured response;
\* no exception escapes and the returned value is never a raw exception.
C1_AlwaysStructuredResponse ==
    \A u \in Units : Done(u) => returned[u].type = "Response"

\* C2: in BaseViewSet, an alias project_id without a row in the request's
\* workspace makes dispatch return the 404 response "The required object
\* does not exist."; on every failure path dispatch returns the response
\* handle_exception computed.
C2_FailureReturnsClassifiedResponse ==
    \A u \in Units :
        /\ ( /\ Done(u)
             /\ view[u].variant = "BaseViewSet"
             /\ IsAlias(view[u].kwargs.project_id)
             /\ Lookup(store, view[u].kwargs.slug, view[u].kwargs.project_id) = {} )
           => returned[u] = Response(404, ErrorBody(MsgNotFound))
        /\ (Done(u) /\ heCalls[u] # <<>>)
           => returned[u] = heCalls[u][Len(heCalls[u])].result.response

\* the classification table of the specification, first match wins
TableRow(e) ==
    IF "IntegrityError" \in e.mro THEN <<400, MsgIntegrity>>
    ELSE IF "ValidationError" \in e.mro THEN <<400, MsgValidation>>
    ELSE IF "ObjectDoesNotExist" \in e.mro THEN <<404, MsgNotFound>>
    ELSE IF "KeyError" \in e.mro THEN <<400, MsgKey>>
    ELSE <<500, MsgFallback>>

TablePairs ==
    {<<400, MsgIntegrity>>, <<400, MsgValidation>>, <<404, MsgNotFound>>,
     <<400, MsgKey>>, <<500, MsgFallback>>}

MatchesTable(c) ==
    /\ c.result.outcome = "return"
    /\ c.result.response.type = "Response"
    /\ DOMAIN c.result.response.body = {"error"}
    /\ <<c.result.response.status, c.result.response.body["error"]>> = TableRow(c.exc)

\* an APIException (NotAuthenticated, the one get_queryset raises) or Http404
ConvertedByFramework(e) == "APIException" \in e.mro \/ "Http404" \in e.mro

IsFrameworkAnswer(c) ==
    /\ c.result.outcome = "return"
    /\ c.result.response.type = "Response"
    /\ DOMAIN c.result.response.body = {"detail"}
    /\ c.result.response.status = c.exc.status_code

PastInitial(u) == pc[u] \in {"handler", "handle_exception", "finalize"}

\* C4: while an anonymous request is processed by a view with the default
\* permission_classes, the unit's active time zone is the default, never a
\* zone an earlier authenticated request activated on that unit.
C4_AnonymousRequestSeesDefaultZone ==
    \A u \in Units :
        ( /\ PastInitial(u)
          /\ ~view[u].user.is_authenticated
          /\ view[u].permission_classes = "IsAuthenticated" )
        => tz[u] = DefaultZone

\* C5: when BaseViewSet resolved an alias project_id, the handler is called
\* with the canonical id, and self.kwargs["project_id"] holds it too.
C5_HandlerSeesCanonicalId ==
    \A u \in Units :
        ( /\ handlerSaw[u].invoked
          /\ view[u].variant = "BaseViewSet"
          /\ IsAlias(view[u].kwargs.project_id) )
        => \E r \in Lookup(store, view[u].kwargs.slug, view[u].kwargs.project_id) :
              /\ handlerSaw[u].kwargs.project_id = r.project_id
              /\ handlerSaw[u].self_kwargs.project_id = r.project_id

\* the response of a request that took the failure path
FailureResponse(u) ==
    /\ pc[u] \in {"finalize", "done"}
    /\ heCalls[u] # <<>>
    /\ response[u].type = "Response"

ErrorShaped(r) ==
    /\ DOMAIN r.body = {"error"}
    /\ <<r.status, r.body["error"]>> \in TablePairs

C7_LoggedIffKeyErrorOrFallback ==
    \A u \in Units : \A c \in Calls(u) :
        ~ConvertedByFramework(c.exc) =>
            (c.result.logged = 1 <=> TableRow(c.exc) \in {<<400, MsgKey>>, <<500, MsgFallback>>})

\* C8: handle_exception never raises, also when log_exception raises, and
\* the request still ends with a structured response.
C8_HandleExceptionNeverRaises ==
    \A u \in Units :
        /\ \A c \in Calls(u) : c.result.outcome = "return"
        /\ Done(u) => returned[u].type # "Escaped"

\* C9: for a non-empty, non-UUID raw key, get_project_id returns the project
\* id of the row (tenant, rawKey) when the tenant has one and raises
\* ObjectDoesNotExist when it has none, whatever other tenants hold.
C9_TenantIsolation ==
    (call.made /\ IsAlias(call.rawKey)) =>
        LET own == {r \in store : r.workspace = call.slug /\ r.name = call.rawKey}
        IN  IF own = {}
            THEN call.out.raised = ObjectDoesNotExist
            ELSE call.out.raised = NoExc /\ \E r \in own : call.out.value = r.project_id

\* the alias exists in another tenant only, and the lookup failed
C9_Witness ==
    /\ call.made
    /\ call.slug = TenantAcme
    /\ call.rawKey = AliasENG
    /\ \E r \in store : r.name = AliasENG /\ r.workspace = TenantOther
    /\ ~\E r \in store : r.name = AliasENG /\ r.workspace = TenantAcme
    /\ call.out.raised = ObjectDoesNotExist

\* C10: for an empty or absent raw key, and for one in canonical UUID form,
\* get_project_id returns the key unchanged without querying the table.
C10_NoLookupForEmptyOrCanonical ==
    (call.made /\ (Falsy(call.rawKey) \/ IsCanonical(call.rawKey))) =>
        /\ call.out.raised = NoExc
        /\ call.out.value = call.rawKey
        /\ call.out.lookups = 0

\* a canonical key passed through a non-empty table untouched
C10_Witness ==
    /\ call.made
    /\ call.rawKey = Uuid1
    /\ store # {}
    /\ call.out = Resolved(Uuid1, 0)

\* C11: when dispatch has returned, on the success path and on every failure
\* path, the unit's active time zone is back to the default.
C11_ZoneResetAtRequestEnd ==
    \A u \in Units : Done(u) => tz[u] = DefaultZone

NotComma(c) == c # ","

\* the positions where a maximal run of non-comma characters starts
RunStarts(s) == {i \in 1..Len(s) : s[i] # "," /\ (i = 1 \/ s[i - 1] = ",")}

RECURSIVE Flatten(_)
Flatten(l) == IF l = <<>> THEN <<>> ELSE Head(l) \o Flatten(Tail(l))

\* C12: fields and expand, in both base classes, give the non-empty
\* comma-separated entries of the parameter in their order, and give None,
\* never an empty list, when the parameter is absent, empty or only commas.
C12_ListAccessorsDropEmptiesOrNone ==
    (acc.made /\ acc.kind = "list") =>
        LET s == IF acc.param = NoneVal THEN <<>> ELSE acc.param
        IN  IF RunStarts(s) = {}
            THEN acc.out = NoneList
            ELSE /\ ~acc.out.none
                 /\ Len(acc.out.list) = Cardinality(RunStarts(s))
                 /\ \A i \in 1..Len(acc.out.list) :
                        /\ acc.out.list[i] # <<>>
                        /\ \A j \in 1..Len(acc.out.list[i]) : acc.out.list[i][j] # ","
                 /\ Flatten(acc.out.list) = SelectSeq(s, NotComma)

\* fields=a,b,,c was read as ["a", "b", "c"]
C12_Witness ==
    /\ acc.made
    /\ acc.kind = "list"
    /\ acc.name = "fields"
    /\ acc.param = <<"a", ",", "b", ",", ",", "c">>
    /\ acc.out = List(<<<<"a">>, <<"b">>, <<"c">>>>)

Ran(u, stage) == \E i \in DOMAIN stages[u] : stages[u][i] = stage

\* the locale step TimezoneMixin.initial runs for the request's user
LocaleStep(u) == IF view[u].user.is_authenticated THEN "activate" ELSE "deactivate"

\* C13: the stages of one request run one after another: in BaseViewSet the
\* handler runs only after identifier resolution succeeded and after
\* TimezoneMixin.initial ran its locale step; after a failed resolution or
\* a failed initial the handler is never invoked.
C13_HandlerAfterResolutionAndLocale ==
    \A u \in Units :
        /\ handlerSaw[u].invoked <=> Ran(u, "handler")
        /\ (Ran(u, "handler") /\ view[u].variant = "BaseViewSet")
           => /\ Len(stages[u]) >= 4
              /\ SubSeq(stages[u], 1, 4) = <<"resolved", "super_dispatch", LocaleStep(u), "handler">>
        /\ (Ran(u, "handler") /\ view[u].variant = "BaseAPIView")
           => /\ Len(stages[u]) >= 3
              /\ SubSeq(stages[u], 1, 3) = <<"super_dispatch", LocaleStep(u), "handler">>
        /\ (Ran(u, "resolve_failed") \/ Ran(u, "initial_rejected") \/ Ran(u, "activate_failed"))
           => ~Ran(u, "handler")

\* a BaseViewSet request whose alias was resolved reached its handler
C13_Witness ==
    \E u \in Units :
        /\ view[u].variant = "BaseViewSet"
        /\ IsAlias(view[u].kwargs.project_id)
        /\ queries[u] = 1
        /\ handlerSaw[u].invoked
        /\ handlerSaw[u].tz = view[u].user.user_timezone

\* C14: on the success path dispatch returns exactly the response the
\* handler produced, in both base classes, and the value dispatch returns
\* with settings.DEBUG on is the value it returns with settings.DEBUG off.
C14_ResponsePassedThroughWhateverDebug ==
    \A u \in Units :
        /\ (Done(u) /\ handlerSaw[u].response.type = "Response")
           => returned[u] = handlerSaw[u].response
        /\ pc[u] = "finalize"
           => dispatch_return(TRUE, response[u]).returned
                = dispatch_return(FALSE, response[u]).returned

\* a request served with settings.DEBUG on returned the handler's 201
C14_Witness ==
    \E u \in Units :
        /\ DEBUG
        /\ Done(u)
        /\ prints[u] = 1
        /\ handlerSaw[u].response = Response(201, "data" :> "ok")
        /\ returned[u] = Response(201, "data" :> "ok")

\* C15: BaseViewSet.project_id gives the project_id path parameter when it is
\* present and non-empty, else the pk parameter exactly on the route named
\* "project", else None; BaseAPIView.project_id gives the project_id
\* parameter or None whatever the route; workspace_slug gives the slug
\* parameter or None in both.
C15_IdAccessors ==
    (acc.made /\ acc.kind = "id") =>
        LET kw == acc.kwargs
            present == kw.project_id # NoneVal /\ kw.project_id # Empty
        IN  /\ acc.workspace_slug = kw.slug
            /\ acc.variant = "BaseViewSet" =>
                   /\ present => acc.project_id = kw.project_id
                   /\ (~present /\ acc.url_name = "project") => acc.project_id = kw.pk
                   /\ (~present /\ acc.url_name # "project") => acc.project_id = NoneVal
            /\ acc.variant = "BaseAPIView" => acc.project_id = kw.project_id

\* on the route named "project" with no project_id, the view set answered
\* with pk
C15_Witness ==
    /\ acc.made
    /\ acc.kind = "id"
    /\ acc.variant = "BaseViewSet"
    /\ acc.url_name = "project"
    /\ acc.kwargs.project_id = NoneVal
    /\ acc.kwargs.pk = Uuid2
    /\ acc.project_id = Uuid2

\* the same route and parameters on the plain view: None, pk not used
C15_WitnessPlain ==
    /\ acc.made
    /\ acc.kind = "id"
    /\ acc.variant = "BaseAPIView"
    /\ acc.url_name = "project"
    /\ acc.kwargs.project_id = NoneVal
    /\ acc.kwargs.pk = Uuid2
    /\ acc.project_id = NoneVal

OwnZone(user) == IF user.is_authenticated THEN user.user_timezone ELSE DefaultZone

InFlight(u) == pc[u] \notin {"idle", "done"}

\* C17: with requests interleaved on different units, from the end of a
\* request's own TimezoneMixin.initial to its handler the unit's zone is the
\* one that request set, whatever the other unit activates or deactivates;
\* a request in flight always has its next step enabled, and an idle unit
\* can take a request, whatever the other unit is doing.
C17_UnitsDoNotInterfere ==
    \A u \in Units :
        /\ pc[u] = "handler" => tz[u] = OwnZone(view[u].user)
        /\ handlerSaw[u].invoked => handlerSaw[u].tz = OwnZone(view[u].user)
        /\ InFlight(u) => ENABLED UnitStep(u)
        /\ (pc[u] = "idle" /\ served < MaxRequests)
           => ENABLED (\E req \in ConcurrentRequests : Accept(u, req))

\* two requests in flight at once: one handler has seen Asia/Kolkata while
\* the other unit, after it, stands activated on UTC
C17_Witness ==
    \E u, v \in Units :
        /\ u # v
        /\ handlerSaw[u].invoked
        /\ handlerSaw[u].tz = "Asia/Kolkata"
        /\ InFlight(u)
        /\ pc[v] = "handler"
        /\ tz[v] = "UTC"
        /\ tz[u] = "Asia/Kolkata"

OtherVariant(variant) == IF variant = "BaseViewSet" THEN "BaseAPIView" ELSE "BaseViewSet"

\* C18: for every handle_exception call, the other base class, given the
\* same error with the logger behaving the same way, ends the same way and
\* returns the same status and body.
C18_VariantsClassifyIdentically ==
    \A u \in Units : \A i \in DOMAIN heCalls[u] :
        LET c          == heCalls[u][i]
            loggerFail == c.result.outcome = "raise"
            other      == handle_exception(OtherVariant(c.variant), c.exc, loggerFail)
        IN  /\ other.outcome = c.result.outcome
            /\ other.response = c.result.response

ChecksPass(u) ==
    ~(view[u].permission_classes = "IsAuthenticated" /\ ~view[u].user.is_authenticated)

Turned(u) == Ran(u, "initial_rejected") \/ Ran(u, "resolve_failed")

\* C19: a unit's active time zone changes only in the step of
\* TimezoneMixin.initial that follows a super().initial whose checks passed;
\* no step that leaves a request rejected by those checks, or failed in
\* identifier resolution, changes the zone, so such a request ends with the
\* zone the unit had before it.
C19_ZoneChangesOnlyAfterChecksPass ==
    [][\A u \in Units :
          /\ tz'[u] # tz[u] => (pc[u] = "initial" /\ pc'[u] = "handler" /\ ChecksPass(u))
          /\ Turned(u)' => tz'[u] = tz[u]]_vars

\* a rejected request ended on a unit still carrying the zone an earlier
\* request activated
C19_Witness ==
    \E u \in Units :
        /\ Done(u)
        /\ Ran(u, "initial_rejected")
        /\ ~Ran(u, "activate")
        /\ ~Ran(u, "deactivate")
        /\ tz[u] = "Asia/Kolkata"

\* C20: when get_project_id succeeds, get_project_id applied to its result,
\* with the same tenant and table, returns that result without a lookup.
C20_ResolutionIsIdempotent ==
    (call.made /\ call.out.raised = NoExc) =>
        /\ call.again.raised = NoExc
        /\ call.again.value = call.out.value
        /\ call.again.lookups = 0

\* an alias resolved with one lookup, and its result resolved to itself with
\* none
C20_Witness ==
    /\ call.made
    /\ call.rawKey = AliasENG
    /\ call.out.raised = NoExc
    /\ call.out.lookups = 1
    /\ call.out.value # call.rawKey
    /\ call.again = Resolved(call.out.value, 0)

====
